---- MODULE Spec2Model ----
(***************************************************************************)
(* Journal backend: the user service (register, login), the access-control *)
(* middleware (authenticate, restrictTo), the journal service and the feed  *)
(* routes, over the relational store (users, journals, _TaggedStudents).    *)
(* Every request is one action: the route's middleware chain followed by    *)
(* its handler, with the store calls the handler makes.                     *)
(***************************************************************************)
EXTENDS Integers, Sequences, FiniteSets, TLC

VARIABLES
    users,      \* rows of table "users"
    journals,   \* rows of table "journals"
    tagged,     \* rows <<A, B>> of table "_TaggedStudents": journal id, user id
    nextJid,    \* how many journal identifiers have been handed out
    now,        \* the clock of the store (CURRENT_TIMESTAMP)
    appNow,     \* the clock of the application (new Date())
    registering,\* the register requests whose handler is between its two
                \* store calls (existence lookup, insert), by request
    response    \* the response to the latest request, with the request's
                \* Authorization header and the stages that ran for it

vars == <<users, journals, tagged, nextJid, now, appNow, registering, response>>

(***************************************************************************)
(* Bounds of the model.                                                     *)
(***************************************************************************)
MaxJournals == 1
MaxTime == 1
MaxRequests == 2

Emails == {"e1", "e2", "e3"}
Passwords == {"pw1", "pw2"}
Salts == {"s1"}
Titles == {"t1", "t2"}
Contents == {"c1"}

\* an absent field of a request (undefined in the handler)
Absent == "undefined"

\* SQL NULL / no value: the empty set; a value v is held as {v}
Null == {}

UserIds == {"u1", "u2", "u3"}
JournalIds == 1..MaxJournals
Times == 0..MaxTime
Requests == 1..MaxRequests

\* the identifier uuid() gives the row of each email: identifiers are opaque
\* and unique, and the users table holds at most one row per email
Uuid(email) ==
    CASE email = "e1" -> "u1"
      [] email = "e2" -> "u2"
      [] OTHER -> "u3"

(***************************************************************************)
(* Enumerated types of the schema.                                          *)
(***************************************************************************)
Role == {"STUDENT", "TEACHER", "ADMIN"}
MediaType == {"IMAGE", "VIDEO", "AUDIO", "PDF"}

\* the fields the Prisma client knows of model Journal
JournalFields ==
    {"id", "title", "content", "media", "mediaType", "teacherId", "teacher",
     "taggedStudents", "created_at", "updated_at"}

\* the client rejects a query naming a field the model does not have
PrismaKnows(fields) == fields \subseteq JournalFields

(***************************************************************************)
(* String.prototype.toUpperCase on the strings of the model.                *)
(***************************************************************************)
toUpperCase(s) ==
    CASE s \in {"teacher", "Teacher", "TEACHER"} -> "TEACHER"
      [] s \in {"student", "Student", "STUDENT"} -> "STUDENT"
      [] s \in {"admin", "ADMIN"} -> "ADMIN"
      [] s \in {"principal", "PRINCIPAL"} -> "PRINCIPAL"
      [] s \in {"image", "IMAGE"} -> "IMAGE"
      [] s \in {"video", "VIDEO"} -> "VIDEO"
      [] OTHER -> s

\* x?.toUpperCase(): undefined stays undefined
optUpper(s) == IF s = Absent THEN Absent ELSE toUpperCase(s)

(***************************************************************************)
(* bcrypt and jsonwebtoken.                                                 *)
(***************************************************************************)
\* bcrypt.hash: a string that starts with the salt and is followed by a
\* digest of salt and password
bcryptHash(password, salt) ==
    CASE <<salt, password>> = <<"s1", "pw1">> -> "$s1$d11"
      [] <<salt, password>> = <<"s1", "pw2">> -> "$s1$d12"
      [] OTHER -> "$s1$d10"

\* bcrypt.compare: hashes the password with the salt the hash starts with
bcryptCompare(password, hashed) == \E salt \in Salts : hashed = bcryptHash(password, salt)

jwtSignDefaultRole(user) ==
    [userId |-> user.id, name |-> user.name, email |-> user.email, role |-> "STUDENT"]

\* jwt.sign over the claims of a user row
jwtSign(user) ==
    [userId |-> user.id, name |-> user.name, email |-> user.email, role |-> user.role]

(***************************************************************************)
(* Responses.                                                               *)
(***************************************************************************)
\* journal and journals hold the ids of the journals returned, included the
\* user rows returned inside them
EmptyBody ==
    [user |-> {}, token |-> {}, journal |-> {}, journals |-> {},
     included |-> {}, userRole |-> {}, required |-> <<>>]

\* the Authorization header of a request to a route that does not read it
NotChecked == [kind |-> "unchecked"]

\* a request to a route without middleware, as its handler receives it
Public(handler) == [ran |-> <<handler>>, header |-> NotChecked, allowed |-> <<>>]

\* a request that went through a route's middleware chain c, as the route's
\* handler receives it
Handled(c, handler) ==
    [ran |-> Append(c.ran, handler), header |-> c.header, allowed |-> c.allowed]

\* A response is the status, the message and the body the client receives;
\* with it the model keeps, of the request it answers, the Authorization
\* header (header), the roles the route is restricted to (allowed), the
\* stages that ran (ran) and the _TaggedStudents rows the request removed
\* (untagged).
Resp(status, message, req, body) ==
    [status |-> status, message |-> message, body |-> body,
     header |-> req.header, allowed |-> req.allowed, ran |-> req.ran,
     untagged |-> {}]

\* a register request that has not arrived
Idle == [pc |-> "idle"]

Unsanitized(user) == user

Sanitized(user) ==
    [id |-> user.id, name |-> user.name, email |-> user.email, role |-> user.role]

Init ==
    /\ users = {}
    /\ journals = {}
    /\ tagged = {}
    /\ nextJid = 0
    /\ now = 0
    /\ appNow = 0
    /\ registering = [r \in Requests |-> Idle]
    /\ response = Resp(0, "", [ran |-> <<>>, header |-> NotChecked, allowed |-> <<>>],
                       EmptyBody)

(***************************************************************************)
(* The clocks: Tick is an instant passing on both, StoreTick and AppTick an  *)
(* instant passing on one of them only.                                     *)
(***************************************************************************)
Tick ==
    /\ now < MaxTime /\ appNow < MaxTime
    /\ now' = now + 1
    /\ appNow' = appNow + 1
    /\ UNCHANGED <<users, journals, tagged, nextJid, registering, response>>

StoreTick ==
    /\ now < MaxTime
    /\ now' = now + 1
    /\ UNCHANGED <<users, journals, tagged, nextJid, appNow, registering, response>>

AppTick ==
    /\ appNow < MaxTime
    /\ appNow' = appNow + 1
    /\ UNCHANGED <<users, journals, tagged, nextJid, now, registering, response>>

(***************************************************************************)
(* User service.                                                            *)
(***************************************************************************)
UserByEmail(email) == {u \in users : u.email = email}
UserById(id) == {u \in users : u.id = id}

\* role?.toUpperCase() || "STUDENT"
RegisterRole(role) == IF optUpper(role) = Absent THEN "STUDENT" ELSE optUpper(role)

userNeverExists(email) == FALSE

\* const userExists = await prisma.user.findUnique({ where: { email } })
userExists(email) == UserByEmail(email) # {}

EmailNeverTaken(email) == FALSE

\* email String @unique: an insert of a second row with the email is refused
EmailTaken(email) == UserByEmail(email) # {}

registerUser(name, email, password, role, salt) ==
    LET req == Public("registerUser")
        failed == Resp(500, "User registration failed", req, EmptyBody)
    IN  IF email = Absent
        THEN \* findUnique without the unique field throws
             /\ response' = failed
             /\ UNCHANGED <<users, journals, tagged, nextJid, now, appNow>>
        ELSE IF userExists(email)
        THEN /\ response' = Resp(400, "User already exists", req, EmptyBody)
             /\ UNCHANGED <<users, journals, tagged, nextJid, now, appNow>>
        ELSE IF \/ password = Absent
                \/ RegisterRole(role) \notin Role
                \/ EmailTaken(email)
        THEN \* bcrypt.hash of undefined throws; the Role enum rejects the
             \* value; the insert violates email @unique
             /\ response' = failed
             /\ UNCHANGED <<users, journals, tagged, nextJid, now, appNow>>
        ELSE LET user == [id |-> Uuid(email), name |-> name, email |-> email,
                          password |-> bcryptHash(password, salt),
                          role |-> RegisterRole(role)]
             IN  /\ users' = users \cup {user}
                 /\ response' = Resp(201, "User registered successfully", req,
                                     [EmptyBody EXCEPT !.user = {Sanitized(user)}])
                 /\ UNCHANGED <<journals, tagged, nextJid, now, appNow>>

loginUser(email, password) ==
    LET req == Public("loginUser")
        failed == Resp(500, "User login failed", req, EmptyBody)
    IN  /\ UNCHANGED <<users, journals, tagged, nextJid, now, appNow>>
        /\ IF email = Absent
           THEN response' = failed
           ELSE IF UserByEmail(email) = {}
           THEN response' = Resp(400, "User not found", req, EmptyBody)
           ELSE LET user == CHOOSE u \in UserByEmail(email) : TRUE
                IN  IF password = Absent
                    THEN response' = failed
                    ELSE IF ~bcryptCompare(password, user.password)
                    THEN response' = Resp(400, "Invalid password", req, EmptyBody)
                    ELSE response' =
                           Resp(200, "User logged in successfully", req,
                                [EmptyBody EXCEPT !.user = {Sanitized(user)},
                                                  !.token = {jwtSign(user)}])

\* the register requests of the model: a teacher, a student by the default
\* role, an administrator, and the requests the handler fails on
RegisterBody(name, email, password, role) ==
    [name |-> name, email |-> email, password |-> password, role |-> role]

Registrations ==
    {RegisterBody("n1", "e1", "pw1", "teacher"),
     RegisterBody("n2", "e2", "pw1", Absent),
     RegisterBody("n3", "e3", "pw1", "ADMIN"),
     RegisterBody("n1", "e1", "pw1", "principal"),
     RegisterBody("n2", "e2", Absent, "student"),
     RegisterBody("n3", Absent, "pw1", "student")}

Register ==
    /\ \E body \in Registrations, salt \in Salts :
          registerUser(body.name, body.email, body.password, body.role, salt)
    /\ UNCHANGED registering

Login ==
    /\ \E email \in Emails \cup {Absent}, password \in Passwords \cup {Absent} :
          loginUser(email, password)
    /\ UNCHANGED registering

(***************************************************************************)
(* Access-control middleware.                                               *)
(***************************************************************************)

\* the Authorization headers a request may carry: none, one that does not
\* start with "Bearer ", a bearer token jwt.verify rejects, and a bearer token
\* signed with the secret, with the claims it carries
Claims(userId, role) == [userId |-> userId, role |-> role]

SignedTokens ==
    {Claims("u1", "TEACHER"),
     Claims("u2", "STUDENT"), Claims("u2", "student"),
     Claims("u3", "STUDENT"), Claims("u3", "ADMIN")}
NoHeader == [kind |-> "none"]
BasicHeader == [kind |-> "basic"]
BadBearer == [kind |-> "bearer", verified |-> FALSE, token |-> Claims("u1", "TEACHER")]
Bearer(token) == [kind |-> "bearer", verified |-> TRUE, token |-> token]
AuthHeaders ==
    {NoHeader, BasicHeader, BadBearer} \cup {Bearer(t) : t \in SignedTokens}

\* the outcome of a middleware: either it calls next() (pass, with req.user)
\* or it answers the request itself
Passed(user) == [pass |-> TRUE, user |-> user]
Rejected(status, message, body) ==
    [pass |-> FALSE, status |-> status, message |-> message, body |-> body]

authenticateDecodeOnly(header) ==
    IF header.kind # "bearer"
    THEN Rejected(401, "Unauthorized - No token provided", EmptyBody)
    ELSE Passed({[header.token EXCEPT !.role = optUpper(header.token.role)]})

authenticate(header) ==
    IF header.kind # "bearer"
    THEN Rejected(401, "Unauthorized - No token provided", EmptyBody)
    ELSE IF ~header.verified
    THEN Rejected(401, "Invalid Token", EmptyBody)
    ELSE Passed({[header.token EXCEPT !.role = optUpper(header.token.role)]})

\* reqUser is req.user: {} when no identity is attached
restrictTo(allowedRoles, reqUser) ==
    IF reqUser = {}
    THEN Rejected(401, "User not authenticated", EmptyBody)
    ELSE LET user == CHOOSE u \in reqUser : TRUE
             userRole == optUpper(user.role)
             allowedRolesUpper == {toUpperCase(allowedRoles[i]) : i \in DOMAIN allowedRoles}
         IN  IF userRole \notin allowedRolesUpper
             THEN Rejected(403, "You do not have permission to perform this action",
                           [EmptyBody EXCEPT !.required = allowedRoles,
                                             !.userRole = {userRole}])
             ELSE Passed(reqUser)

\* the outcome of a route's middleware chain: the stages that ran and either
\* the rejection or req.user, for the request it was given
Outcome(header, allowedRoles, ran, out) ==
    [pass |-> out.pass, ran |-> ran, out |-> out,
     header |-> header, allowed |-> allowedRoles]

UploadStages(upload) ==
    IF upload THEN <<"uploadMiddleware", "uploadToCloudinary">> ELSE <<>>

ChainUploadFirst(header, allowedRoles, upload) ==
    LET a == authenticate(header)
    IN  IF ~a.pass
        THEN Outcome(header, allowedRoles, <<"authenticate">>, a)
        ELSE IF allowedRoles = <<>>
        THEN Outcome(header, allowedRoles, <<"authenticate">>, a)
        ELSE Outcome(header, allowedRoles,
                     <<"authenticate">> \o UploadStages(upload) \o <<"restrictTo">>,
                     restrictTo(allowedRoles, a.user))

\* The middleware chain of a route up to its handler: authenticate, then
\* restrictTo(allowedRoles) when the route declares it, then the two upload
\* steps when the route declares them.
Chain(header, allowedRoles, upload) ==
    LET a == authenticate(header)
    IN  IF ~a.pass
        THEN Outcome(header, allowedRoles, <<"authenticate">>, a)
        ELSE IF allowedRoles = <<>>
        THEN Outcome(header, allowedRoles, <<"authenticate">>, a)
        ELSE LET r == restrictTo(allowedRoles, a.user)
             IN  IF ~r.pass
                 THEN Outcome(header, allowedRoles, <<"authenticate", "restrictTo">>, r)
                 ELSE Outcome(header, allowedRoles,
                              <<"authenticate", "restrictTo">> \o UploadStages(upload), r)

\* the answer of a chain that rejected the request: the store is not touched
Reject(c) ==
    /\ response' = Resp(c.out.status, c.out.message, c, c.out.body)
    /\ UNCHANGED <<users, journals, tagged, nextJid, now, appNow>>

ReqUser(c) == CHOOSE u \in c.out.user : TRUE

(***************************************************************************)
(* Journal service.                                                         *)
(***************************************************************************)
JournalById(id) == {j \in journals : j.id = id}
TagsOf(id) == {row[2] : row \in {r \in tagged : r[1] = id}}
Known(ids) == ids \subseteq {u.id : u \in users}

\* req.body.taggedStudents: absent, a JSON-encoded string (well formed or
\* not), or a literal list
TagIdSets == {{}, {"u2"}, {"u2", "u3"}}

TagInputs ==
    {[kind |-> "absent"], [kind |-> "badjson"], [kind |-> "json", ids |-> {"u2", "u3"}]}
        \cup {[kind |-> "list", ids |-> ids] : ids \in TagIdSets}

\* what createJournal maps over: JSON.parse of a string, the value itself
\* otherwise. threw: JSON.parse threw; list: the value has a map method.
ParseTagged(t) ==
    CASE t.kind = "json" -> [threw |-> FALSE, list |-> TRUE, ids |-> t.ids]
      [] t.kind = "list" -> [threw |-> FALSE, list |-> TRUE, ids |-> t.ids]
      [] t.kind = "badjson" -> [threw |-> TRUE, list |-> FALSE, ids |-> {}]
      [] OTHER -> [threw |-> FALSE, list |-> FALSE, ids |-> {}]

RawTaggedOrEmpty(t) ==
    CASE t.kind = "list" -> [threw |-> FALSE, list |-> TRUE, ids |-> t.ids]
      [] t.kind = "absent" -> [threw |-> FALSE, list |-> TRUE, ids |-> {}]
      [] OTHER -> [threw |-> FALSE, list |-> FALSE, ids |-> {}]

\* what updateJournal maps over: the value as it arrived, a string has no map
RawTagged(t) ==
    CASE t.kind = "list" -> [threw |-> FALSE, list |-> TRUE, ids |-> t.ids]
      [] OTHER -> [threw |-> FALSE, list |-> FALSE, ids |-> {}]

\* the uploaded file of a multipart request: none, or the resource type the
\* storage reports for it; the requests of the model carry no file
NoFile == "nofile"
Files == {NoFile}

\* uploadToCloudinary: with a file, req.body.media and req.body.mediaType
\* are overwritten from it
BodyMedia(file) == IF file = NoFile THEN Absent ELSE "url"
BodyMediaType(file) == IF file = NoFile THEN Absent ELSE file

\* media || []: the stored list, empty or holding the uploaded file's URL
MediaOr(media) == IF media = Absent THEN <<>> ELSE <<media>>

\* include: { teacher: true, taggedStudents: true }: the rows of the teacher
\* and of the tagged students, with every column of model User
IncludeOf(teacherId, ids) == {u \in users : u.id = teacherId \/ u.id \in ids}

\* the rows included in the journals of ids
Included(ids) ==
    UNION {IncludeOf(j.teacherId, TagsOf(j.id)) : j \in {x \in journals : x.id \in ids}}

\* taggedStudents: { connect: ids }
ConnectTagged(id, ids) == tagged \cup {<<id, u>> : u \in ids}

MergeTagged(id, ids) == tagged \cup {<<id, u>> : u \in ids}

\* taggedStudents: { set: ids }
SetTagged(id, ids) == {r \in tagged : r[1] # id} \cup {<<id, u>> : u \in ids}

KeepTagged(id) == tagged

\* "A" REFERENCES "journals"(id) ON DELETE CASCADE
CascadeTagged(id) == {r \in tagged : r[1] # id}

createJournal(c, file, title, content, taggedStudents) ==
    LET req == Handled(c, "createJournal")
        userId == ReqUser(c).userId
        parsed == ParseTagged(taggedStudents)
        mediaType == optUpper(BodyMediaType(file))
        accepted ==
            /\ ~parsed.threw /\ parsed.list
            /\ title # Absent /\ content # Absent
            /\ mediaType \in MediaType \cup {Absent}
            /\ Known({userId})
            /\ Known(parsed.ids)
    IN  IF ~accepted
        THEN /\ response' = Resp(500, "Journal creation failed", req, EmptyBody)
             /\ UNCHANGED <<users, journals, tagged, nextJid, now, appNow>>
        ELSE /\ nextJid < MaxJournals
             /\ LET id == nextJid + 1
                    journal ==
                        [id |-> id, title |-> title, content |-> content,
                         media |-> MediaOr(BodyMedia(file)),
                         mediaType |-> IF mediaType = Absent THEN Null ELSE {mediaType},
                         teacherId |-> userId,
                         \* column default CURRENT_TIMESTAMP and the insert trigger
                         publish_at |-> {now}]
                IN  /\ journals' = journals \cup {journal}
                    /\ tagged' = ConnectTagged(id, parsed.ids)
                    /\ nextJid' = id
                    /\ response' = Resp(201, "Journal created successfully", req,
                                        [EmptyBody EXCEPT
                                            !.journal = {id},
                                            !.included = IncludeOf(userId, parsed.ids)])
                    /\ UNCHANGED <<users, now, appNow>>

getAllJournals(c) ==
    /\ response' = Resp(200, "Journals fetched successfully",
                        Handled(c, "getAllJournals"),
                        [EmptyBody EXCEPT
                            !.journals = {j.id : j \in journals},
                            !.included = Included({j.id : j \in journals})])
    /\ UNCHANGED <<users, journals, tagged, nextJid, now, appNow>>

getJournalById(c, id) ==
    LET req == Handled(c, "getJournalById")
    IN  /\ response' = IF JournalById(id) = {}
                       THEN Resp(404, "Journal not found", req, EmptyBody)
                       ELSE Resp(200, "Journal fetched successfully", req,
                                 [EmptyBody EXCEPT !.journal = {id},
                                                   !.included = Included({id})])
        /\ UNCHANGED <<users, journals, tagged, nextJid, now, appNow>>

updateJournal(c, id, file, title, content, taggedStudents) ==
    LET req == Handled(c, "updateJournal")
        raw == RawTagged(taggedStudents)
        mediaType == optUpper(BodyMediaType(file))
        accepted ==
            /\ raw.list
            /\ mediaType \in MediaType \cup {Absent}
            /\ JournalById(id) # {}
            /\ Known(raw.ids)
    IN  IF ~accepted
        THEN /\ response' = Resp(500, "Failed to update journal", req, EmptyBody)
             /\ UNCHANGED <<users, journals, tagged, nextJid, now, appNow>>
        ELSE LET old == CHOOSE j \in JournalById(id) : TRUE
                 new == [old EXCEPT
                            \* an undefined field of data is left as it is
                            !.title = IF title = Absent THEN @ ELSE title,
                            !.content = IF content = Absent THEN @ ELSE content,
                            !.media = MediaOr(BodyMedia(file)),
                            !.mediaType = IF mediaType = Absent THEN @ ELSE {mediaType}]
             IN  /\ response' =
                        [Resp(200, "Journal updated successfully", req,
                              [EmptyBody EXCEPT
                                  !.journal = {id},
                                  !.included = IncludeOf(old.teacherId, raw.ids)])
                            EXCEPT !.untagged = tagged \ SetTagged(id, raw.ids)]
                 /\ tagged' = SetTagged(id, raw.ids)
                 /\ journals' = (journals \ {old}) \cup {new}
                 /\ UNCHANGED <<users, nextJid, now, appNow>>

deleteJournal(c, id) ==
    LET req == Handled(c, "deleteJournal")
    IN  IF JournalById(id) = {}
        THEN /\ response' = Resp(500, "Failed to delete journal", req, EmptyBody)
             /\ UNCHANGED <<users, journals, tagged, nextJid, now, appNow>>
        ELSE /\ journals' = journals \ JournalById(id)
             /\ tagged' = CascadeTagged(id)
             /\ response' =
                    [Resp(200, "Journal deleted successfully", req, EmptyBody)
                        EXCEPT !.untagged = tagged \ CascadeTagged(id)]
             /\ UNCHANGED <<users, nextJid, now, appNow>>

(***************************************************************************)
(* Dates: new Date(string), Date.prototype.toISOString, isValidISODate.     *)
(* A date string is its notation and the instant it denotes: "iso" is the   *)
(* notation toISOString writes (2024-01-01T00:00:00.000Z), "short" is       *)
(* another notation Date parses (2024-01-01), "text" is not a date          *)
(* ("next tuesday").                                                        *)
(***************************************************************************)
DateStrings == [fmt : {"iso", "short"}, t : Times] \cup {[fmt |-> "text", t |-> 0]}

\* req.body.publish_at left out
NoDate == [fmt |-> "undefined", t |-> 0]

\* new Date(s): {} is the Invalid Date
newDate(s) == IF s.fmt = "text" THEN {} ELSE {s.t}

toISOString(t) == [fmt |-> "iso", t |-> t]

isValidISODate(dateString) ==
    LET date == newDate(dateString)
    IN  /\ date # {}
        /\ \A t \in date : dateString = toISOString(t)

publishJournal(c, id, publish_at) ==
    LET req == Handled(c, "publishJournal")
    IN  IF publish_at # NoDate /\ ~isValidISODate(publish_at)
        THEN /\ response' = Resp(400, "Invalid publish_at date format. Must be ISO 8601",
                                 req, EmptyBody)
             /\ UNCHANGED <<users, journals, tagged, nextJid, now, appNow>>
        ELSE IF ~PrismaKnows({"publish_at"}) \/ JournalById(id) = {}
        THEN /\ response' = Resp(500, "Failed to publish journal", req, EmptyBody)
             /\ UNCHANGED <<users, journals, tagged, nextJid, now, appNow>>
        ELSE LET old == CHOOSE j \in JournalById(id) : TRUE
                 new == [old EXCEPT !.publish_at =
                            IF publish_at # NoDate THEN newDate(publish_at) ELSE {appNow}]
             IN  /\ journals' = (journals \ {old}) \cup {new}
                 /\ response' = Resp(200, "Journal published successfully", req,
                                     [EmptyBody EXCEPT !.journal = {id},
                                                       !.included = Included({id})])
                 /\ UNCHANGED <<users, tagged, nextJid, now, appNow>>

(***************************************************************************)
(* Feeds.                                                                   *)
(***************************************************************************)
\* where: { teacherId: userId }
TeacherFeedQuery(userId) == {j.id : j \in {x \in journals : x.teacherId = userId}}

\* where: taggedStudents some id = userId AND (publish_at null OR publish_at <= date)
StudentFeedQuery(userId, date) ==
    {j.id : j \in {x \in journals :
        /\ <<x.id, userId>> \in tagged
        /\ (x.publish_at = Null \/ \A p \in x.publish_at : p <= date)}}

StudentFeedWhere == {"taggedStudents", "publish_at"}

getTeacherFeed(c) ==
    /\ response' = Resp(200, "Teacher feed fetched successfully",
                        Handled(c, "getTeacherFeed"),
                        [EmptyBody EXCEPT
                            !.journals = TeacherFeedQuery(ReqUser(c).userId),
                            !.included = Included(TeacherFeedQuery(ReqUser(c).userId))])
    /\ UNCHANGED <<users, journals, tagged, nextJid, now, appNow>>

getStudentFeed(c) ==
    LET req == Handled(c, "getStudentFeed")
    IN  /\ response' =
            IF ~PrismaKnows(StudentFeedWhere)
            THEN Resp(500, "Failed to get student feed", req, EmptyBody)
            ELSE Resp(200, "Student feed fetched successfully", req,
                      [EmptyBody EXCEPT
                          !.journals = StudentFeedQuery(ReqUser(c).userId, appNow),
                          !.included = Included(StudentFeedQuery(ReqUser(c).userId, appNow))])
        /\ UNCHANGED <<users, journals, tagged, nextJid, now, appNow>>

\* the handler of GET /user/feed
getFeed(c) ==
    LET req == Handled(c, "feed")
        userId == ReqUser(c).userId
    IN  /\ UNCHANGED <<users, journals, tagged, nextJid, now, appNow>>
        /\ IF UserById(userId) = {}
           THEN response' = Resp(404, "User not found", req, EmptyBody)
           ELSE LET user == CHOOSE u \in UserById(userId) : TRUE
                IN  IF user.role = "TEACHER"
                    THEN response' =
                           Resp(200, "Teacher feed fetched successfully", req,
                                [EmptyBody EXCEPT
                                    !.journals = TeacherFeedQuery(userId),
                                    !.included = Included(TeacherFeedQuery(userId))])
                    ELSE IF user.role = "STUDENT"
                    THEN response' =
                           IF ~PrismaKnows(StudentFeedWhere)
                           THEN Resp(500, "Failed to get feed", req, EmptyBody)
                           ELSE Resp(200, "Student feed fetched successfully", req,
                                     [EmptyBody EXCEPT
                                        !.journals = StudentFeedQuery(userId, appNow),
                                        !.included =
                                            Included(StudentFeedQuery(userId, appNow))])
                    ELSE response' =
                           Resp(400, "Invalid user role. Must be either 'teacher' or 'student'",
                                req, [EmptyBody EXCEPT !.userRole = {user.role}])

(***************************************************************************)
(* Routes: the middleware chain each route declares, then its handler. The  *)
(* body of a request is read by the handler only.                           *)
(***************************************************************************)
TeacherOnly == <<"teacher">>
StudentOnly == <<"student">>
AnyRole == <<>>

PostJournalCreate(header) ==
    LET c == Chain(header, TeacherOnly, TRUE)
    IN  IF ~c.pass THEN Reject(c)
        ELSE \E file \in Files, title \in Titles \cup {Absent},
                content \in Contents, taggedStudents \in TagInputs :
                createJournal(c, file, title, content, taggedStudents)

GetJournals(header) ==
    LET c == Chain(header, AnyRole, FALSE)
    IN  IF ~c.pass THEN Reject(c) ELSE getAllJournals(c)

GetJournal(header) ==
    LET c == Chain(header, AnyRole, FALSE)
    IN  IF ~c.pass THEN Reject(c)
        ELSE \E id \in JournalIds : getJournalById(c, id)

PutJournal(header) ==
    LET c == Chain(header, TeacherOnly, TRUE)
    IN  IF ~c.pass THEN Reject(c)
        ELSE \E id \in JournalIds, file \in Files, title \in Titles \cup {Absent},
                content \in Contents, taggedStudents \in TagInputs :
                updateJournal(c, id, file, title, content, taggedStudents)

DeleteJournal(header) ==
    LET c == Chain(header, TeacherOnly, FALSE)
    IN  IF ~c.pass THEN Reject(c)
        ELSE \E id \in JournalIds : deleteJournal(c, id)

PostJournalPublish(header) ==
    LET c == Chain(header, TeacherOnly, FALSE)
    IN  IF ~c.pass THEN Reject(c)
        ELSE \E id \in JournalIds, publish_at \in DateStrings \cup {NoDate} :
                publishJournal(c, id, publish_at)

GetUserFeed(header) ==
    LET c == Chain(header, AnyRole, FALSE)
    IN  IF ~c.pass THEN Reject(c) ELSE getFeed(c)

GetUserTeacher(header) ==
    LET c == Chain(header, TeacherOnly, FALSE)
    IN  IF ~c.pass THEN Reject(c) ELSE getTeacherFeed(c)

GetUserStudent(header) ==
    LET c == Chain(header, StudentOnly, FALSE)
    IN  IF ~c.pass THEN Reject(c) ELSE getStudentFeed(c)

Create ==
    /\ \E header \in AuthHeaders : PostJournalCreate(header)
    /\ UNCHANGED registering

List ==
    /\ \E header \in AuthHeaders : GetJournals(header)
    /\ UNCHANGED registering

GetById ==
    /\ \E header \in AuthHeaders : GetJournal(header)
    /\ UNCHANGED registering

Update ==
    /\ \E header \in AuthHeaders : PutJournal(header)
    /\ UNCHANGED registering

Delete ==
    /\ \E header \in AuthHeaders : DeleteJournal(header)
    /\ UNCHANGED registering

Publish ==
    /\ \E header \in AuthHeaders : PostJournalPublish(header)
    /\ UNCHANGED registering

Feed ==
    /\ \E header \in AuthHeaders : GetUserFeed(header)
    /\ UNCHANGED registering

TeacherFeed ==
    /\ \E header \in AuthHeaders : GetUserTeacher(header)
    /\ UNCHANGED registering

StudentFeed ==
    /\ \E header \in AuthHeaders : GetUserStudent(header)
    /\ UNCHANGED registering

Next ==
    \/ Tick
    \/ Register
    \/ Login
    \/ Create
    \/ List
    \/ GetById
    \/ Update
    \/ Delete
    \/ Publish
    \/ Feed
    \/ TeacherFeed
    \/ StudentFeed

Spec == Init /\ [][Next]_vars
(***************************************************************************)
(* Properties.                                                              *)
(***************************************************************************)
StoreUnchanged == UNCHANGED <<users, journals, tagged, nextJid>>

StoredRole(userId) == {u.role : u \in UserById(userId)}

\* a student-feed query by the bearer of token t: the legacy route with a
\* student token, or GET /user/feed by a user stored as STUDENT
StudentQueryBy(t) ==
    \/ t.role \in {"STUDENT", "student", "Student"} /\ GetUserStudent(Bearer(t))
    \/ StoredRole(t.userId) = {"STUDENT"} /\ GetUserFeed(Bearer(t))

\* the journals student S is tagged on whose publish_at is null or has come
VisibleTo(S) ==
    {j.id : j \in {x \in journals :
        /\ S \in TagsOf(x.id)
        /\ \A p \in x.publish_at : p <= now}}

\* C1: a student-feed query by S returns journal J if and only if S is tagged
\* on J and J's publish_at is null or not later than the current time.
C1_StudentFeedIsTaggedAndVisible ==
    [][\A t \in SignedTokens, j \in journals :
          StudentQueryBy(t) =>
              (j.id \in response'.body.journals <=> j.id \in VisibleTo(t.userId))]_vars

\* C2: the first feed query of a tagged student after the journal was created
\* includes the journal; a feed query of a tagged student includes a journal
\* with publish_at T exactly when the clock has reached T.
C2_TaggedStudentsSeeJournalOnceDue ==
    [][\A t \in SignedTokens, j \in journals :
          (StudentQueryBy(t) /\ <<j.id, t.userId>> \in tagged) =>
              /\ (response.status = 201 /\ response.body.journal = {j.id})
                    => j.id \in response'.body.journals
              /\ \A T \in j.publish_at :
                    (j.id \in response'.body.journals) <=> (T <= now)]_vars

Unauthenticated == {NoHeader, BasicHeader, BadBearer}

\* C3: a request to a protected route without an Authorization header, with
\* one that does not start with "Bearer ", or with a token that fails
\* verification is answered 401 by authenticate, no later stage runs and the
\* store is unchanged.
C3_UnauthenticatedIsRejectedFirst ==
    [][response'.header \in Unauthenticated =>
          /\ response'.status = 401
          /\ response'.ran = <<"authenticate">>
          /\ StoreUnchanged]_vars

C3_Witness ==
    /\ response.header = BadBearer
    /\ response.allowed = TeacherOnly
    /\ response.status = 401
    /\ response.message = "Invalid Token"
    /\ journals # {}
    /\ tagged # {}

StudentTokens == {t \in SignedTokens : t.role \in {"STUDENT", "student", "Student"}}

\* C4: a request with a valid STUDENT token (in any letter case) to a
\* TEACHER-restricted route is answered 403 naming the required role, before
\* the upload steps and the handler, and the store is unchanged.
C4_StudentForbiddenOnTeacherRoutes ==
    [][(/\ response'.header \in {Bearer(t) : t \in StudentTokens}
        /\ response'.allowed = TeacherOnly) =>
          /\ response'.status = 403
          /\ response'.body.required = <<"teacher">>
          /\ response'.ran = <<"authenticate", "restrictTo">>
          /\ StoreUnchanged]_vars

C4_Witness ==
    /\ response.header = Bearer(Claims("u2", "student"))
    /\ response.allowed = TeacherOnly
    /\ response.status = 403
    /\ response.body.required = <<"teacher">>
    /\ response.body.userRole = {"STUDENT"}
    /\ journals # {}

\* C5: user rows are never removed, and a register request for an email that
\* already has a row is answered 400 "User already exists" and leaves the
\* users table as it was.
C5_SecondRegisterConflicts ==
    [][/\ users \subseteq users'
       /\ response'.ran = <<"registerUser">> =>
            \A body \in Registrations, salt \in Salts :
              (/\ body.email # Absent
               /\ UserByEmail(body.email) # {}
               /\ registerUser(body.name, body.email, body.password, body.role, salt))
                  => /\ response'.status = 400
                     /\ response'.message = "User already exists"
                     /\ users' = users]_vars

C5_Witness ==
    /\ response.status = 400
    /\ response.message = "User already exists"
    /\ users # {}

\* the password a user registered with
RegisteredPassword(user) ==
    CHOOSE p \in Passwords : \E salt \in Salts : user.password = bcryptHash(p, salt)

\* C6: a login with a registered email and its password returns 200 with a
\* token whose userId is the user's id and whose role, uppercased, is the
\* stored role; a login with an unknown email or a wrong password returns 400
\* and no token.
C6_LoginTokenCarriesStoredRole ==
    [][response'.ran = <<"loginUser">> =>
        \A email \in Emails, password \in Passwords :
          loginUser(email, password) =>
              IF \E u \in UserByEmail(email) : RegisteredPassword(u) = password
              THEN /\ response'.status = 200
                   /\ response'.body.token # {}
                   /\ \A tok \in response'.body.token, u \in UserByEmail(email) :
                        /\ tok.userId = u.id
                        /\ toUpperCase(tok.role) = u.role
              ELSE /\ response'.status = 400
                   /\ response'.body.token = {}]_vars

C6_Witness ==
    /\ response.status = 200
    /\ \E tok \in response.body.token : tok.role = "TEACHER" /\ tok.userId = "u1"

\* C7: publish on an existing journal: a publish_at that is not a strict
\* ISO-8601 string yields 400 and leaves publish_at unchanged; a strict ISO
\* string yields 200 and the stored publish_at serializes back to it; an
\* omitted publish_at yields 200 and stores the current instant.
C7_PublishRoundTrip ==
    [][\A c \in {Chain(header, TeacherOnly, FALSE) : header \in AuthHeaders},
         id \in JournalIds, publish_at \in DateStrings \cup {NoDate} :
          (/\ c.pass
           /\ JournalById(id) # {}
           /\ publishJournal(c, id, publish_at))
              => IF publish_at = NoDate
                 THEN /\ response'.status = 200
                      /\ \A j \in {x \in journals' : x.id = id} : j.publish_at = {now}
                 ELSE IF publish_at.fmt = "iso"
                 THEN /\ response'.status = 200
                      /\ \A j \in {x \in journals' : x.id = id} :
                            /\ j.publish_at # {}
                            /\ \A p \in j.publish_at : toISOString(p) = publish_at
                 ELSE /\ response'.status = 400
                      /\ journals' = journals]_vars

\* C8: every _TaggedStudents row refers to a journal that exists, and a
\* journal that was deleted is returned by no student-feed query and by no
\* response.
C8_NoOrphanedTags ==
    /\ \A r \in tagged : JournalById(r[1]) # {}
    /\ \A id \in 1..nextJid :
          JournalById(id) = {} =>
              /\ \A S \in UserIds : id \notin StudentFeedQuery(S, now)
              /\ id \notin response.body.journals

C8_Witness ==
    /\ response.message = "Journal deleted successfully"
    /\ response.untagged # {}
    /\ journals = {}

\* C9: GET /user/feed answers by the role stored for the token's userId: no
\* stored user 404, TEACHER the journals the caller owns, STUDENT the student
\* feed, any other role 400 echoing it; the store is unchanged.
C9_FeedRoutedByStoredRole ==
    [][\A t \in SignedTokens :
          GetUserFeed(Bearer(t)) =>
              /\ StoreUnchanged
              /\ IF StoredRole(t.userId) = {}
                 THEN response'.status = 404
                 ELSE IF StoredRole(t.userId) = {"TEACHER"}
                 THEN /\ response'.status = 200
                      /\ response'.body.journals =
                            {j.id : j \in {x \in journals : x.teacherId = t.userId}}
                 ELSE IF StoredRole(t.userId) = {"STUDENT"}
                 THEN /\ response'.status = 200
                      /\ response'.body.journals = VisibleTo(t.userId)
                 ELSE /\ response'.status = 400
                      /\ response'.body.userRole = StoredRole(t.userId)]_vars

\* C10: a successful update of journal id with tagged-student list L leaves
\* the journal's tagged-student set equal to the ids in L; a student tagged
\* before and absent from L is in no student-feed query result for it.
C10_UpdateReplacesTaggedStudents ==
    [][response'.message = "Journal updated successfully" =>
        \A c \in {Chain(header, TeacherOnly, TRUE) : header \in AuthHeaders},
           id \in JournalIds, file \in Files, title \in Titles \cup {Absent},
           content \in Contents, taggedStudents \in TagInputs :
            (c.pass /\ updateJournal(c, id, file, title, content, taggedStudents))
                => /\ taggedStudents.kind = "list"
                   /\ {r[2] : r \in {x \in tagged' : x[1] = id}} = taggedStudents.ids
                   /\ \A S \in TagsOf(id) \ taggedStudents.ids :
                        id \notin StudentFeedQuery(S, now)']_vars

C10_Witness ==
    /\ response.message = "Journal updated successfully"
    /\ response.untagged # {}
    /\ tagged # {}

\* the chains of the three routes that take a journal id, for a signed token
UpdateChain(t) == Chain(Bearer(t), TeacherOnly, TRUE)
DeleteChain(t) == Chain(Bearer(t), TeacherOnly, FALSE)
GetChain(t) == Chain(Bearer(t), AnyRole, FALSE)

\* an update request for journal id that passed the chain of PUT /:id
UpdateOf(t, id) ==
    /\ UpdateChain(t).pass
    /\ \E file \in Files, title \in Titles \cup {Absent},
          content \in Contents, taggedStudents \in TagInputs :
            updateJournal(UpdateChain(t), id, file, title, content, taggedStudents)

DeleteOf(t, id) == DeleteChain(t).pass /\ deleteJournal(DeleteChain(t), id)

GetOf(t, id) == GetChain(t).pass /\ getJournalById(GetChain(t), id)

\* C11: PUT /:id, DELETE /:id and GET /:id by an authorized caller for an id
\* that matches no journal are answered 404, not 500, and leave the store
\* unchanged.
C11_MissingJournalIsNotFound ==
    [][\A t \in SignedTokens, id \in JournalIds :
          (/\ JournalById(id) = {}
           /\ (UpdateOf(t, id) \/ DeleteOf(t, id) \/ GetOf(t, id)))
              => /\ response'.status = 404
                 /\ StoreUnchanged]_vars

(***************************************************************************)
(* Two teachers: the journal routes restricted to teachers, with two        *)
(* registered teachers and a student.                                       *)
(***************************************************************************)
TeacherRegistrations ==
    {RegisterBody("n1", "e1", "pw1", "teacher"),
     RegisterBody("n2", "e2", "pw1", "student"),
     RegisterBody("n3", "e3", "pw1", "Teacher")}

TeacherTokens == {Claims("u1", "TEACHER"), Claims("u3", "TEACHER")}

RegisterTeachers ==
    /\ \E body \in TeacherRegistrations, salt \in Salts :
          registerUser(body.name, body.email, body.password, body.role, salt)
    /\ UNCHANGED registering

CreateByTeacher ==
    /\ \E t \in TeacherTokens : PostJournalCreate(Bearer(t))
    /\ UNCHANGED registering

UpdateByTeacher ==
    /\ \E t \in TeacherTokens : PutJournal(Bearer(t))
    /\ UNCHANGED registering

DeleteByTeacher ==
    /\ \E t \in TeacherTokens : DeleteJournal(Bearer(t))
    /\ UNCHANGED registering

PublishByTeacher ==
    /\ \E t \in TeacherTokens : PostJournalPublish(Bearer(t))
    /\ UNCHANGED registering

NextTeachers ==
    \/ RegisterTeachers
    \/ CreateByTeacher
    \/ UpdateByTeacher
    \/ DeleteByTeacher
    \/ PublishByTeacher

SpecTeachers == Init /\ [][NextTeachers]_vars

PublishOf(t, id) ==
    /\ DeleteChain(t).pass
    /\ \E publish_at \in DateStrings \cup {NoDate} :
          publishJournal(DeleteChain(t), id, publish_at)

\* C12: no update, publish or delete request from a TEACHER other than the
\* journal's owner (token userId different from teacherId) changes the
\* journal's row or tagged-student set, or removes the journal.
C12_OnlyOwnerMutates ==
    [][\A t \in TeacherTokens, j \in journals :
          (/\ StoredRole(t.userId) = {"TEACHER"}
           /\ t.userId # j.teacherId
           /\ (UpdateOf(t, j.id) \/ PublishOf(t, j.id) \/ DeleteOf(t, j.id)))
              => /\ j \in journals'
                 /\ {r \in tagged' : r[1] = j.id} = {r \in tagged : r[1] = j.id}]_vars

UserView == {"id", "name", "email", "role"}
TokenClaims == {"userId", "name", "email", "role"}
StoredHashes == {u.password : u \in users}

\* C13: a register or login response holds only the projection (id, name,
\* email, role) of the user and, for login, the token; no value in it is a
\* stored password hash; and no stored password is a plaintext password.
C13_AuthResponsesAreSanitized ==
    /\ response.ran \in {<<"registerUser">>, <<"loginUser">>} =>
          /\ \A u \in response.body.user :
                /\ DOMAIN u = UserView
                /\ \A f \in DOMAIN u : u[f] \notin StoredHashes
          /\ \A tok \in response.body.token :
                /\ DOMAIN tok = TokenClaims
                /\ \A f \in DOMAIN tok : tok[f] \notin StoredHashes
          /\ response.ran = <<"registerUser">> => response.body.token = {}
          /\ response.body.journal = {} /\ response.body.journals = {}
    /\ \A u \in users : u.password \notin Passwords

C13_Witness ==
    /\ response.ran = <<"loginUser">>
    /\ response.status = 200
    /\ response.body.token # {}
    /\ \E u \in response.body.user : \E x \in users : x.id = u.id /\ x.password = "$s1$d11"

\* the handler that answered the latest request
Handler(resp) == IF resp.ran = <<>> THEN "" ELSE resp.ran[Len(resp.ran)]

\* req.body.taggedStudents left out
NoTags == [kind |-> "absent"]

\* C14: an update request by a TEACHER that omits taggedStudents is answered
\* with an error, never 200, and leaves the journal's title, content, media,
\* mediaType and tagged-student set as they were: a step either is answered
\* with an error and leaves journals and tags as they were, or is no such
\* request.
C14_UpdateWithoutTagsFails ==
    [][Handler(response') = "updateJournal" =>
        \/ /\ response'.status >= 400
           /\ journals' = journals
           /\ tagged' = tagged
        \/ \A t \in SignedTokens :
              UpdateChain(t).pass =>
                \A id \in JournalIds, file \in Files,
                   title \in Titles \cup {Absent}, content \in Contents :
                    ~updateJournal(UpdateChain(t), id, file, title, content, NoTags)]_vars

C14_Witness ==
    /\ response.message = "Failed to update journal"
    /\ response.header = Bearer(Claims("u1", "TEACHER"))
    /\ \E j \in journals : j.teacherId = "u1" /\ TagsOf(j.id) = {"u2", "u3"}
    /\ Cardinality(journals) = MaxJournals

(***************************************************************************)
(* Two clocks: the application and the store on hosts whose clocks are not  *)
(* synchronized.                                                            *)
(***************************************************************************)
NextClocks ==
    \/ StoreTick
    \/ AppTick
    \/ Register
    \/ Create
    \/ Feed
    \/ StudentFeed

SpecClocks == Init /\ [][NextClocks]_vars

\* journal j is due by the clock of the store
DueByStoreClock(j) == \A p \in j.publish_at : p <= now

\* C15: whether a student-feed query returns a journal to a student tagged on
\* it depends on the store's clock only (publish_at <= the store's now), so a
\* journal whose publish_at the store defaulted at creation is returned by
\* the feed query that follows the creation, whatever the application's clock.
C15_FeedUsesStoreClock ==
    [][\A t \in SignedTokens, j \in journals :
          (StudentQueryBy(t) /\ t.userId \in TagsOf(j.id)) =>
              /\ DueByStoreClock(j) <=> j.id \in response'.body.journals
              /\ (response.message = "Journal created successfully"
                     /\ response.body.journal = {j.id})
                    => j.id \in response'.body.journals]_vars

(***************************************************************************)
(* Concurrent register requests: registerUser as the two store calls it     *)
(* makes, prisma.user.findUnique and prisma.user.create, with the requests  *)
(* of other clients between them.                                           *)
(***************************************************************************)
Answered(r, status, message, body) ==
    /\ registering' = [registering EXCEPT ![r] =
            [pc |-> "done", body |-> registering[r].body, status |-> status]]
    /\ response' = Resp(status, message, Public("registerUser"), body)

\* the request arrives
RegisterArrive(r) ==
    /\ registering[r].pc = "idle"
    /\ \E body \in Registrations, salt \in Salts :
          registering' = [registering EXCEPT ![r] =
              [pc |-> "lookup", body |-> body, salt |-> salt]]
    /\ UNCHANGED <<users, journals, tagged, nextJid, now, appNow, response>>

\* const userExists = await prisma.user.findUnique({ where: { email } })
RegisterLookup(r) ==
    /\ registering[r].pc = "lookup"
    /\ LET email == registering[r].body.email
       IN  IF email = Absent
           THEN Answered(r, 500, "User registration failed", EmptyBody)
           ELSE IF userExists(email)
           THEN Answered(r, 400, "User already exists", EmptyBody)
           ELSE /\ registering' = [registering EXCEPT ![r].pc = "insert"]
                /\ UNCHANGED response
    /\ UNCHANGED <<users, journals, tagged, nextJid, now, appNow>>

\* bcrypt.hash, then await prisma.user.create({ data })
RegisterInsert(r) ==
    /\ registering[r].pc = "insert"
    /\ LET body == registering[r].body
           user == [id |-> Uuid(body.email), name |-> body.name, email |-> body.email,
                    password |-> bcryptHash(body.password, registering[r].salt),
                    role |-> RegisterRole(body.role)]
       IN  IF \/ body.password = Absent
              \/ RegisterRole(body.role) \notin Role
              \/ EmailTaken(body.email)
           THEN /\ Answered(r, 500, "User registration failed", EmptyBody)
                /\ UNCHANGED users
           ELSE /\ users' = users \cup {user}
                /\ Answered(r, 201, "User registered successfully",
                            [EmptyBody EXCEPT !.user = {Sanitized(user)}])
    /\ UNCHANGED <<journals, tagged, nextJid, now, appNow>>

Arrive == \E r \in Requests : RegisterArrive(r)

Lookup == \E r \in Requests : RegisterLookup(r)

Insert == \E r \in Requests : RegisterInsert(r)

NextRace ==
    \/ Arrive
    \/ Lookup
    \/ Insert

SpecRace == Init /\ [][NextRace]_vars

\* the register requests that arrived for an email, those of them answered,
\* and those answered 201
RequestsFor(email) ==
    {r \in Requests : registering[r].pc # "idle" /\ registering[r].body.email = email}
Done(email) == {r \in RequestsFor(email) : registering[r].pc = "done"}
Won(email) == {r \in Done(email) : registering[r].status = 201}

\* a register body the handler accepts when the email is free
Acceptable(body) ==
    /\ body.email # Absent
    /\ body.password # Absent
    /\ RegisterRole(body.role) \in Role

\* C16: under any interleaving of concurrent register requests for one email
\* the store holds at most one user for it, one per request answered 201;
\* once all the requests are answered and one of them was acceptable, exactly
\* one was answered 201 and every other one with an error.
C16_ConcurrentRegisterOneWinner ==
    \A email \in Emails :
        /\ Cardinality(UserByEmail(email)) <= 1
        /\ Cardinality(Won(email)) = Cardinality(UserByEmail(email))
        /\ (/\ Done(email) = RequestsFor(email)
            /\ \E r \in RequestsFor(email) : Acceptable(registering[r].body))
              => /\ Cardinality(Won(email)) = 1
                 /\ Cardinality(UserByEmail(email)) = 1
                 /\ \A r \in Done(email) \ Won(email) :
                        registering[r].status \in {400, 500}

\* two acceptable requests for one email both passed the lookup; one was
\* answered 201 and the other failed at the insert
C16_Witness ==
    \E r1, r2 \in Requests :
        /\ r1 # r2
        /\ registering[r1].pc = "done" /\ registering[r2].pc = "done"
        /\ registering[r1].body.email = registering[r2].body.email
        /\ Acceptable(registering[r1].body) /\ Acceptable(registering[r2].body)
        /\ registering[r1].status = 201
        /\ registering[r2].status = 500
        /\ Cardinality(users) = 1

\* the handlers of the journal and feed endpoints that return journals
JournalHandlers ==
    {"createJournal", "getAllJournals", "getJournalById", "updateJournal",
     "publishJournal", "feed", "getTeacherFeed", "getStudentFeed"}

\* C17: no response of a journal or feed endpoint holds the stored password
\* hash of a user: the teacher and tagged-student rows inside a returned
\* journal have no password field.
C17_JournalResponsesHideHashes ==
    Handler(response) \in JournalHandlers =>
        \A u \in response.body.included :
            /\ "password" \notin DOMAIN u
            /\ \A f \in DOMAIN u : u[f] \notin StoredHashes

====
